---- MODULE Spec2Model ----
(***************************************************************************)
(* Model of the email audit repository (src/email_audit).                  *)
(*                                                                         *)
(* Spec     : one run of EmailAuditor.audit_email                          *)
(*            (auditor/email_auditor.py).                                  *)
(* SpecLLM  : one call of ainvoke on a provider adapter                    *)
(*            (llm/anthropic_llm.py, llm/grok_llm.py, llm/groq_llm.py; the *)
(*            OpenAI adapter, llm/openai_llm.py, is known only through     *)
(*            tests/llm/test_openai_llm.py and is modelled from them).     *)
(* SpecFactory : one call of LLMFactory.create_llm and the constructor it   *)
(*            reaches (llm/llm_factory.py, __init__ of the adapters).      *)
(* SpecAuditorInit : one construction of EmailAuditor.                     *)
(* SpecCsv  : one call of ReportGenerator.generate_csv_report.             *)
(* SpecConc : two audits on one auditor, interleaved at their awaits.      *)
(* SpecPipeline : calls of process_eml_file, seconds passing, restarts.    *)
(*                                                                         *)
(* Numbers.  Python floats are modelled by integers: a StepResult score is *)
(* held in tenths (0.7 is 7), a criterion weight ("score" in audit_steps)  *)
(* in tenths of a point (5.40 is 54).  A quotient such as overall_score is *)
(* held as the record [num, den] and compared by cross multiplication.     *)
(***************************************************************************)
EXTENDS Integers, Sequences, FiniteSets, TLC

(***************************************************************************)
(* Bounds of the model.                                                    *)
(***************************************************************************)
\* number of checklist entries an auditor is configured with (0..MaxCriteria)
MaxCriteria == 2
\* the last second the clock of the pipeline reaches (0..MaxClock)
MaxClock == 2
\* length of the results list the scoring model returns (0..MaxResults)
MaxResults == 2
\* number of members of a JSON object the provider sends (0..MaxMembers)
MaxMembers == 2

(***************************************************************************)
(* Program constants.                                                      *)
(***************************************************************************)
\* the pass mark the StepResult.passed field documents (score >= 0.7)
PassMark == 7
\* weights of the checklist, in tenths of a point
WeightLow == 30
WeightHigh == 54

(***************************************************************************)
(* Helpers.                                                                *)
(***************************************************************************)
SeqsUpTo(S, n) == UNION { [1..k -> S] : k \in 0..n }

\* equality of two quotients num/den (den > 0)
RatEq(a, b) == a.num * b.den = b.num * a.den

(***************************************************************************)
(* The checklist: self.audit_steps.  The model keeps the leading entries   *)
(* of the list and one critical entry; an auditor is configured with a     *)
(* prefix of it (the empty prefix is the empty criteria set).              *)
(***************************************************************************)
AllAuditSteps ==
    << [id |-> "logical_itinerary", isCritical |-> FALSE,
        score |-> WeightLow, category |-> "PNR Fields"],
       [id |-> "frequent_flyer_loyalty", isCritical |-> FALSE,
        score |-> WeightHigh, category |-> "PNR Fields"],
       [id |-> "limo_offering_address_phone", isCritical |-> TRUE,
        score |-> WeightHigh, category |-> "Client Policy and Service"],
       [id |-> "accurate_accounting_line_pac", isCritical |-> TRUE,
        score |-> WeightLow, category |-> "Accounting"] >>

UnknownStepId == "unknown_step"

StepIds == { AllAuditSteps[i].id : i \in 1..MaxCriteria } \cup { UnknownStepId }

\* scores the scoring model may put in a StepResult, in tenths
Scores == { 5, 7, 10 }

\* StepResult (the text fields title, analysis, reasoning, improvements are
\* carried through unchanged by the code and are left out)
StepResult == [step_id : StepIds, passed : BOOLEAN, score : Scores]

\* what a role client's structured call can give back
ResultKinds == { "object", "text", "none", "raised" }

VARIABLES
    stage,                \* position of the run in audit_email
    visited,              \* the stages entered so far, in order
    audit_steps,          \* self.audit_steps
    structured_data,      \* kind of the primary client's result
    comprehensive_report, \* the reasoning client's result
    audit_results,        \* the list returned as detailed_results
    overall_score,        \* the value returned as score
    calls,                \* invocations per role client in this run
    returned,             \* "none", "result" (dict returned) or "raised"
    \* one call of ainvoke on an adapter
    llm_pc,               \* "off", "idle", "awaiting" (request sent) or "done"
    adapter,              \* the adapter class the call is made on
    schema,               \* name of the schema argument, "none" when omitted
    request,              \* the request handed to the provider client
    response,             \* what the provider client gave back
    result,               \* the value ainvoke returns
    requests,             \* provider requests sent by this call
    parses,               \* json.loads attempts made by this call
    \* one call of LLMFactory.create_llm
    f_pc,                 \* "off", "idle" or "done"
    provider,             \* the provider argument, as received
    model_name,           \* the model_name argument
    temperature,          \* the temperature argument, in tenths
    api_key,              \* the api_key argument, "none" when omitted
    env,                  \* os.environ: variable name -> value or "unset"
    created,              \* the adapter create_llm returns
    error,                \* the exception create_llm raises
    \* one construction of EmailAuditor
    a_pc,                 \* "off", "idle" or "done"
    role_env,             \* the role variables of os.environ
    clients,              \* primary_llm, reasoning_llm, detail_llm
    factory_calls,        \* the calls of LLMFactory.create_llm made
    init_error,           \* the exception __init__ raises
    \* one call of ReportGenerator.generate_csv_report
    csv_pc,               \* "off", "idle" or "done"
    csv_input,            \* audit_results['detailed_results']
    csv_row,              \* the data row returned
    \* two audits on one auditor, interleaved at their awaits
    c_stage,              \* per audit: its position in audit_email
    c_given,              \* per audit: what the provider answered it
    c_report,             \* per audit: its locals messages and report
    c_results,            \* per audit: the history and results it returns
    c_score,              \* per audit: the score it returns
    \* EmailAuditPipeline with its StateManager
    p_up,                 \* the pipeline object exists
    p_state,              \* state["processed_files"]: path -> case number
    p_file,               \* processing_state.json
    clock,                \* datetime.now(), in seconds
    folders,              \* the case folders under processed_cases
    p_last,               \* what the last process_eml_file call returned
    p_succeeded           \* per path: the case number of its success

auditVars == << stage, visited, audit_steps, structured_data,
                comprehensive_report, audit_results, overall_score, calls,
                returned >>

llmVars == << llm_pc, adapter, schema, request, response, result, requests,
              parses >>

factoryVars == << f_pc, provider, model_name, temperature, api_key, env,
                  created, error >>

initVars == << a_pc, role_env, clients, factory_calls, init_error >>

csvVars == << csv_pc, csv_input, csv_row >>

concVars == << c_stage, c_given, c_report, c_results, c_score >>

pipeVars == << p_up, p_state, p_file, clock, folders, p_last, p_succeeded >>

vars == << auditVars, llmVars, factoryVars, initVars, csvVars, concVars,
           pipeVars >>

NoReport == [kind |-> "none", results |-> << >>]
NoScore == [num |-> 0, den |-> 1]

NoRequest == [system |-> FALSE, tools |-> << >>, tool_choice |-> "none",
              parameters |-> "none", max_tokens |-> 0]
NoResponse == [kind |-> "none", name |-> "none", text |-> << >>]
Pending == [kind |-> "pending", text |-> << >>, fields |-> << >>]

\* no adapter call is part of this specification
LLMOff ==
    /\ llm_pc = "off"
    /\ adapter = "none"
    /\ schema = "none"
    /\ request = NoRequest
    /\ response = NoResponse
    /\ result = Pending
    /\ requests = 0
    /\ parses = 0

EnvVars == { "OPENAI_API_KEY", "ANTHROPIC_API_KEY", "GROK_API_KEY",
             "GROQ_API_KEY" }
NoAdapter == [cls |-> "none", api_key |-> "none", model_name |-> "none",
              temperature |-> 0]
NoError == [type |-> "none", message |-> << >>]

\* no factory call is part of this specification
FactoryOff ==
    /\ f_pc = "off"
    /\ provider = "none"
    /\ model_name = "none"
    /\ temperature = 0
    /\ api_key = "none"
    /\ env = [v \in EnvVars |-> "unset"]
    /\ created = NoAdapter
    /\ error = NoError

\* the three role clients of the auditor
Roles == { "primary", "reasoning", "detail" }
NoClient == [cls |-> "none", api_key |-> "none", model_name |-> "none",
             temperature |-> 0]
\* the environment variables that name a role's provider and model
RoleVars == { "PRIMARY_LLM_PROVIDER", "REASONING_LLM_PROVIDER",
              "DETAIL_LLM_PROVIDER", "PRIMARY_MODEL", "REASONING_MODEL",
              "DETAIL_MODEL" }

\* no construction of an auditor is part of this specification
AuditorInitOff ==
    /\ a_pc = "off"
    /\ role_env = [v \in RoleVars |-> "unset"]
    /\ clients = [r \in Roles |-> NoClient]
    /\ factory_calls = << >>
    /\ init_error = NoError

NoRow == [written |-> FALSE]

\* no CSV report has been asked for
CsvOff ==
    /\ csv_pc = "off"
    /\ csv_input = << >>
    /\ csv_row = NoRow

\* the two audits that run interleaved
Audits == { 1, 2 }

\* no interleaved audits are part of this specification
NoLocals == [messages |-> "none", report |-> NoReport]
NoReturn == [history |-> "none", detailed |-> << >>]

ConcOff ==
    /\ c_stage = [a \in Audits |-> "Off"]
    /\ c_given = [a \in Audits |-> NoLocals]
    /\ c_report = [a \in Audits |-> NoLocals]
    /\ c_results = [a \in Audits |-> NoReturn]
    /\ c_score = [a \in Audits |-> NoScore]

\* the .eml files of the input directory, by absolute path
Files == { "a.eml", "b.eml" }
\* CASE_<timestamp>: a case number is the second it was made in
Cases == 0..MaxClock
NoCase == -1
NoFolder == [exists |-> FALSE, files |-> {}]
NoResult == [status |-> "none", eml_file |-> "none", case_number |-> NoCase,
             touched |-> {}]

\* no pipeline is part of this specification
PipeOff ==
    /\ p_up = FALSE
    /\ p_state = [f \in Files |-> NoCase]
    /\ p_file = [ok |-> TRUE, data |-> [f \in Files |-> NoCase]]
    /\ clock = 0
    /\ folders = [c \in Cases |-> NoFolder]
    /\ p_last = NoResult
    /\ p_succeeded = [f \in Files |-> NoCase]

Init ==
    /\ LLMOff
    /\ FactoryOff
    /\ AuditorInitOff
    /\ CsvOff
    /\ ConcOff
    /\ PipeOff
    /\ stage = "Start"
    /\ visited = << "Start" >>
    /\ audit_steps \in { SubSeq(AllAuditSteps, 1, n) : n \in 0..MaxCriteria }
    /\ structured_data = "none"
    /\ comprehensive_report = NoReport
    /\ audit_results = << >>
    /\ overall_score = NoScore
    /\ calls = [primary |-> 0, reasoning |-> 0, judge |-> 0]
    /\ returned = "none"

\* the except clause of audit_email: log and re-raise
Raise ==
    /\ stage' = "Failed"
    /\ visited' = Append(visited, "Failed")
    /\ returned' = "raised"

\* Step 1: read and parse the HTML file; raises when the file is missing or
\* is not an .html file
ParseHtml ==
    /\ stage = "Start"
    /\ \E exists \in BOOLEAN, isHtml \in BOOLEAN :
         IF exists /\ isHtml
         THEN /\ stage' = "Structure"
              /\ visited' = Append(visited, "Structure")
              /\ returned' = returned
         ELSE Raise
    /\ UNCHANGED << audit_steps, structured_data, comprehensive_report,
                    audit_results, overall_score, calls >>
    /\ UNCHANGED << llmVars, factoryVars, initVars, csvVars, concVars, pipeVars >>

\* faulty variant of StructureConversation: a raw-text result is passed on to
\* the scoring step instead of failing the audit
StructureConversation_Degrades ==
    /\ stage = "Structure"
    /\ \E kind \in ResultKinds :
         /\ calls' = [calls EXCEPT !.primary = @ + 1]
         /\ structured_data' = kind
         /\ IF kind \in { "object", "text" }
            THEN /\ stage' = "Score"
                 /\ visited' = Append(visited, "Score")
                 /\ returned' = returned
            ELSE Raise
    /\ UNCHANGED << audit_steps, comprehensive_report, audit_results,
                    overall_score >>
    /\ UNCHANGED << llmVars, factoryVars, initVars, csvVars, concVars, pipeVars >>

\* Step 2: one structured call of the primary client; the messages are read
\* from structured_data.email_conversations, which raises unless the result
\* is an EmailConversation object
StructureConversation ==
    /\ stage = "Structure"
    /\ \E kind \in ResultKinds :
         /\ calls' = [calls EXCEPT !.primary = @ + 1]
         /\ structured_data' = kind
         /\ IF kind = "object"
            THEN /\ stage' = "Score"
                 /\ visited' = Append(visited, "Score")
                 /\ returned' = returned
            ELSE Raise
    /\ UNCHANGED << audit_steps, comprehensive_report, audit_results,
                    overall_score >>
    /\ UNCHANGED << llmVars, factoryVars, initVars, csvVars, concVars, pipeVars >>

\* faulty variant of ScoreConversation: a null result is treated as an empty
\* report and the audit goes on
ScoreConversation_Degrades ==
    /\ stage = "Score"
    /\ \E kind \in ResultKinds, results \in SeqsUpTo(StepResult, MaxResults) :
         /\ kind # "object" => results = << >>
         /\ calls' = [calls EXCEPT !.reasoning = @ + 1]
         /\ comprehensive_report' = [kind |-> kind, results |-> results]
         /\ IF kind \in { "object", "none" }
            THEN /\ stage' = "Aggregate"
                 /\ visited' = Append(visited, "Aggregate")
                 /\ returned' = returned
            ELSE Raise
    /\ UNCHANGED << audit_steps, structured_data, audit_results, overall_score >>
    /\ UNCHANGED << llmVars, factoryVars, initVars, csvVars, concVars, pipeVars >>

\* Step 3: one structured call of the reasoning client; comprehensive_report
\* .results raises unless the result is an AuditReport object
ScoreConversation ==
    /\ stage = "Score"
    /\ \E kind \in ResultKinds, results \in SeqsUpTo(StepResult, MaxResults) :
         /\ kind # "object" => results = << >>
         /\ calls' = [calls EXCEPT !.reasoning = @ + 1]
         /\ comprehensive_report' = [kind |-> kind, results |-> results]
         /\ IF kind = "object"
            THEN /\ stage' = "Aggregate"
                 /\ visited' = Append(visited, "Aggregate")
                 /\ returned' = returned
            ELSE Raise
    /\ UNCHANGED << audit_steps, structured_data, audit_results, overall_score >>
    /\ UNCHANGED << llmVars, factoryVars, initVars, csvVars, concVars, pipeVars >>

\* step_metadata.get(step_id): the checklist entry with that id, if any
HasMetadata(steps, step_id) == \E i \in 1..Len(steps) : steps[i].id = step_id

Metadata(steps, step_id) ==
    steps[CHOOSE i \in 1..Len(steps) :
            /\ steps[i].id = step_id
            /\ \A j \in (i + 1)..Len(steps) : steps[j].id # step_id]

\* result_dict with the metadata of its checklist entry attached
Attach(res, steps) ==
    [step_id |-> res.step_id, passed |-> res.passed, score |-> res.score,
     is_critical |-> Metadata(steps, res.step_id).isCritical,
     category |-> Metadata(steps, res.step_id).category,
     max_score |-> Metadata(steps, res.step_id).score]

RECURSIVE BuildAuditResults_KeepsUnmatched(_, _)
\* faulty variant of BuildAuditResults: a result without a checklist entry is
\* kept, with the weight of the lightest criterion
BuildAuditResults_KeepsUnmatched(results, steps) ==
    IF results = << >> THEN << >>
    ELSE (IF HasMetadata(steps, Head(results).step_id)
          THEN << Attach(Head(results), steps) >>
          ELSE << [step_id |-> Head(results).step_id,
                   passed |-> Head(results).passed,
                   score |-> Head(results).score,
                   is_critical |-> FALSE, category |-> "none",
                   max_score |-> WeightLow] >>)
         \o BuildAuditResults_KeepsUnmatched(Tail(results), steps)

RECURSIVE BuildAuditResults(_, _)
\* the loop over comprehensive_report.results: results without a checklist
\* entry are dropped, the others are kept in order
BuildAuditResults(results, steps) ==
    IF results = << >> THEN << >>
    ELSE (IF HasMetadata(steps, Head(results).step_id)
          THEN << Attach(Head(results), steps) >>
          ELSE << >>) \o BuildAuditResults(Tail(results), steps)

RECURSIVE TotalScore(_)
\* sum(res['max_score'] for res in audit_results if res['passed'])
TotalScore(results) ==
    IF results = << >> THEN 0
    ELSE (IF Head(results).passed THEN Head(results).max_score ELSE 0)
         + TotalScore(Tail(results))

RECURSIVE MaxScore(_)
\* sum(step['score'] for step in self.audit_steps)
MaxScore(steps) ==
    IF steps = << >> THEN 0 ELSE Head(steps).score + MaxScore(Tail(steps))

\* faulty variant of OverallScore: the division is not guarded
OverallScore_Unguarded(results, steps) ==
    [num |-> TotalScore(results), den |-> MaxScore(steps)]

\* total_score / max_score if max_score > 0 else 0
OverallScore(results, steps) ==
    IF MaxScore(steps) > 0
    THEN [num |-> TotalScore(results), den |-> MaxScore(steps)]
    ELSE [num |-> 0, den |-> 1]

\* Step 4: attach the metadata, compute the score and return the report
Aggregate ==
    /\ stage = "Aggregate"
    /\ audit_results' = BuildAuditResults(comprehensive_report.results, audit_steps)
    /\ overall_score' = OverallScore(audit_results', audit_steps)
    /\ stage' = "Done"
    /\ visited' = Append(visited, "Done")
    /\ returned' = "result"
    /\ UNCHANGED << audit_steps, structured_data, comprehensive_report, calls >>
    /\ UNCHANGED << llmVars, factoryVars, initVars, csvVars, concVars, pipeVars >>

(***************************************************************************)
(* ReportGenerator.generate_csv_report.  A step of detailed_results is a   *)
(* dictionary, modelled as a record that has the keys present; its score   *)
(* is held in hundredths (0.67 is 67) and its max_score in tenths of a     *)
(* point, so a product is in thousandths of a point and a rounded cell in  *)
(* hundredths.  The date, transaction, category and feedback columns take  *)
(* no part in the properties checked and are left out of the row.          *)
(***************************************************************************)

\* the entries of TITLE_TO_ID_MAPPING kept by the model
CsvTitles ==
    { "Logical Itinerary (Time window, Routing, Connections)",
      "Frequent Flyer - Air & Loyalty Membership - Car, Hotels",
      "Offered Limo where applicable and Ensuring complete address & phone number",
      "Process accurate accounting line - PAC",
      "Utilized cross sell & up sell opportunity (Hotel, Car, Insurance)",
      "Oppurtunities" }

TitleToId(title) ==
    CASE title = "Logical Itinerary (Time window, Routing, Connections)" ->
           "logical_itinerary"
      [] title = "Frequent Flyer - Air & Loyalty Membership - Car, Hotels" ->
           "frequent_flyer_loyalty"
      [] title = "Offered Limo where applicable and Ensuring complete address & phone number" ->
           "limo_service_address_phone"
      [] title = "Process accurate accounting line - PAC" ->
           "accurate_accounting_line_pac"
      [] title = "Utilized cross sell & up sell opportunity (Hotel, Car, Insurance)" ->
           "cross_upsell_opportunity"
      [] title = "Oppurtunities" -> "cross_upsell_opportunity"

\* AUDIT_CSV_HEADERS, as the tests of the report generator use it: every
\* title of the mapping is a header, and so are the calculated columns
AuditCsvHeaders ==
    CsvTitles \cup { "Max Score", "Quality Score", "FATAL Transaction",
                     "Score without Fatal" }

\* step.get(key, default)
Get(step, key, default) == IF key \in DOMAIN step THEN step[key] ELSE default

\* detailed_steps_map: the last step with this id, among the steps that
\* have an id
InStepsMap(steps, id) ==
    \E i \in 1..Len(steps) : "id" \in DOMAIN steps[i] /\ steps[i].id = id

StepsMapGet(steps, id) ==
    steps[CHOOSE i \in 1..Len(steps) :
            /\ "id" \in DOMAIN steps[i] /\ steps[i].id = id
            /\ \A j \in (i + 1)..Len(steps) :
                 ~("id" \in DOMAIN steps[j] /\ steps[j].id = id)]

\* faulty variant of Round2: the digits after the second are cut off
Round2_Truncates(thousandths) == thousandths \div 10

\* round(x, 2) of a value held in thousandths, giving hundredths
Round2(thousandths) ==
    LET q == thousandths \div 10
        r == thousandths % 10
    IN  IF r < 5 THEN q
        ELSE IF r > 5 THEN q + 1
        ELSE IF q % 2 = 0 THEN q ELSE q + 1

\* round(x) of the quotient num / den, ties to the even integer
RoundQuotient(num, den) ==
    LET q == num \div den
        r == num % den
    IN  IF 2 * r < den THEN q
        ELSE IF 2 * r > den THEN q + 1
        ELSE IF q % 2 = 0 THEN q ELSE q + 1

\* the cell of one mapped column
ScoreCell(steps, id) ==
    IF /\ InStepsMap(steps, id)
       /\ "score" \in DOMAIN StepsMapGet(steps, id)
       /\ "max_score" \in DOMAIN StepsMapGet(steps, id)
    THEN Round2(StepsMapGet(steps, id).score * StepsMapGet(steps, id).max_score)
    ELSE 0

RECURSIVE OverallMaxScore(_)
\* sum(float(step.get('max_score', 0)) ...), in tenths
OverallMaxScore(steps) ==
    IF steps = << >> THEN 0
    ELSE Get(Head(steps), "max_score", 0) + OverallMaxScore(Tail(steps))

RECURSIVE TotalAchievedScore(_)
\* sum(float(step.get('score', 0)) * float(step.get('max_score', 0)) ...),
\* in thousandths
TotalAchievedScore(steps) ==
    IF steps = << >> THEN 0
    ELSE Get(Head(steps), "score", 0) * Get(Head(steps), "max_score", 0)
         + TotalAchievedScore(Tail(steps))

\* the Quality Score cell: f"{round(percentage)}%"
PercentCell(n) == [text |-> "percent", n |-> n]
NACell == [text |-> "NA", n |-> 0]

QualityScore(steps) ==
    IF OverallMaxScore(steps) > 0
    THEN PercentCell(RoundQuotient(TotalAchievedScore(steps),
                                   OverallMaxScore(steps)))
    ELSE PercentCell(0)

\* faulty variant of IsFatal: a critical step with exactly 0.7 is fatal too
IsFatal_AtMost(steps) ==
    \E i \in 1..Len(steps) :
        /\ Get(steps[i], "is_critical", FALSE)
        /\ Get(steps[i], "score", 100) <= 10 * PassMark

\* is_fatal_flag
IsFatal(steps) ==
    \E i \in 1..Len(steps) :
        /\ Get(steps[i], "is_critical", FALSE)
        /\ Get(steps[i], "score", 100) < 10 * PassMark

\* the data row generate_csv_report returns
CsvRow(steps) ==
    LET fatal == IF IsFatal(steps) THEN "Fatal Error" ELSE "NO"
    IN  [written |-> TRUE,
         scores |-> [t \in CsvTitles \cap AuditCsvHeaders |->
                       ScoreCell(steps, TitleToId(t))],
         max_score |-> OverallMaxScore(steps),
         quality |-> QualityScore(steps),
         fatal |-> fatal,
         without_fatal |-> IF fatal = "Fatal Error" THEN NACell
                           ELSE QualityScore(steps)]

\* the result dictionaries of audit_email as the report generator gets
\* them: the same keys, the score of the model rescaled to hundredths
DetailedResults(results) ==
    [i \in 1..Len(results) |-> [results[i] EXCEPT !.score = 10 * @]]

\* process_eml_file hands the result of audit_email to generate_csv_report
CsvFromAudit ==
    /\ stage = "Done"
    /\ returned = "result"
    /\ csv_pc = "off"
    /\ csv_input' = DetailedResults(audit_results)
    /\ csv_row' = CsvRow(csv_input')
    /\ csv_pc' = "done"
    /\ UNCHANGED << auditVars, llmVars, factoryVars, initVars, concVars, pipeVars >>

Next ==
    \/ ParseHtml
    \/ StructureConversation
    \/ ScoreConversation
    \/ Aggregate
    \/ CsvFromAudit

Spec == Init /\ [][Next]_vars

(***************************************************************************)
(* Text.  A text is a sequence of characters.  The characters of a JSON    *)
(* document are kept as its tokens: a brace, a comma, or one whole member  *)
(* (key and value), so that whitespace can only occur between tokens.      *)
(***************************************************************************)
Ws == " "
\* the backquote character
Backtick == "backtick"
Fence == << Backtick, Backtick, Backtick >>
FenceJson == << Backtick, Backtick, Backtick, "j", "s", "o", "n" >>

\* the members a payload can hold
MemberTokens ==
    { "\"item\": \"Widget\"", "\"quantity\": 100", "\"quantity\": \"100\"",
      "\"quantity\": \"NaN\"", "\"title\": \"T\"", "\"improvements\": \"I\"",
      "\"improvements\": null" }

MemberKey(m) ==
    CASE m = "\"item\": \"Widget\"" -> "item"
      [] m \in { "\"quantity\": 100", "\"quantity\": \"100\"",
                 "\"quantity\": \"NaN\"" } -> "quantity"
      [] m = "\"title\": \"T\"" -> "title"
      [] OTHER -> "improvements"

\* the JSON value of a member: its JSON type and its content
MemberValue(m) ==
    CASE m = "\"item\": \"Widget\"" -> [type |-> "string", v |-> "Widget"]
      [] m = "\"quantity\": 100" -> [type |-> "integer", v |-> "100"]
      [] m = "\"quantity\": \"100\"" -> [type |-> "string", v |-> "100"]
      [] m = "\"quantity\": \"NaN\"" -> [type |-> "string", v |-> "NaN"]
      [] m = "\"title\": \"T\"" -> [type |-> "string", v |-> "T"]
      [] m = "\"improvements\": \"I\"" -> [type |-> "string", v |-> "I"]
      [] OTHER -> [type |-> "null", v |-> ""]

NoneValue == [type |-> "null", v |-> ""]

RECURSIVE LStrip(_)
LStrip(s) == IF s # << >> /\ Head(s) = Ws THEN LStrip(Tail(s)) ELSE s

RECURSIVE RStrip(_)
RStrip(s) ==
    IF s # << >> /\ s[Len(s)] = Ws THEN RStrip(SubSeq(s, 1, Len(s) - 1)) ELSE s

\* str.strip()
Strip(s) == RStrip(LStrip(s))

\* str.startswith, str.endswith
StartsWith(s, p) == Len(s) >= Len(p) /\ SubSeq(s, 1, Len(p)) = p
EndsWith(s, p) == Len(s) >= Len(p) /\ SubSeq(s, Len(s) - Len(p) + 1, Len(s)) = p

\* faulty variant of CleanJsonString: the leading seven characters are cut
\* whether or not the text starts with the json fence
CleanJsonString_AlwaysCuts(raw) ==
    LET a == Strip(raw)
        b == SubSeq(a, 8, Len(a))
        c == IF EndsWith(b, Fence) THEN SubSeq(b, 1, Len(b) - 3) ELSE b
    IN  Strip(c)

\* the removal of markdown fences in AnthropicLLM.ainvoke
CleanJsonString(raw) ==
    LET a == Strip(raw)
        b == IF StartsWith(a, FenceJson) THEN SubSeq(a, 8, Len(a)) ELSE a
        c == IF EndsWith(b, Fence) THEN SubSeq(b, 1, Len(b) - 3) ELSE b
    IN  Strip(c)

\* members separated by commas
WellFormedMembers(inner) ==
    \/ inner = << >>
    \/ /\ Len(inner) % 2 = 1
       /\ \A i \in 1..Len(inner) :
            IF i % 2 = 1 THEN inner[i] \in MemberTokens ELSE inner[i] = ","

OddPositions(inner) == [i \in 1..((Len(inner) + 1) \div 2) |-> inner[2 * i - 1]]

NotJson == [ok |-> FALSE, type |-> "none", members |-> << >>]

\* json.loads: whitespace between tokens is skipped; the document is an
\* object or the empty array; anything else is a JSONDecodeError (ok = FALSE)
JsonLoads(text) ==
    LET t == SelectSeq(text, LAMBDA c : c # Ws)
    IN  IF t = << "[", "]" >>
        THEN [ok |-> TRUE, type |-> "list", members |-> << >>]
        ELSE IF /\ Len(t) >= 2
                /\ Head(t) = "{"
                /\ t[Len(t)] = "}"
                /\ WellFormedMembers(SubSeq(t, 2, Len(t) - 1))
             THEN [ok |-> TRUE, type |-> "dict",
                   members |-> OddPositions(SubSeq(t, 2, Len(t) - 1))]
             ELSE NotJson

\* the dict json.loads builds: a repeated key keeps its last value
HasKey(members, key) == \E i \in 1..Len(members) : MemberKey(members[i]) = key

Lookup(members, key) ==
    MemberValue(members[CHOOSE i \in 1..Len(members) :
                          /\ MemberKey(members[i]) = key
                          /\ \A j \in (i + 1)..Len(members) :
                               MemberKey(members[j]) # key])

(***************************************************************************)
(* Schemas (pydantic models): SampleSchema of the adapter tests and the    *)
(* title and improvements fields of StepResult.                            *)
(***************************************************************************)
SchemaNames == { "SampleSchema", "StepResult" }

SchemaFields(name) ==
    IF name = "SampleSchema" THEN { "item", "quantity" }
    ELSE { "title", "improvements" }

SchemaRequired(name) ==
    IF name = "SampleSchema" THEN { "item", "quantity" } ELSE { "title" }

\* str, int or Optional[str]
FieldType(name, field) ==
    CASE field = "quantity" -> "int"
      [] field = "improvements" -> "optstr"
      [] OTHER -> "str"

\* the value pydantic accepts for a field of that type: an int field takes
\* an integer or a string of digits (converted), a str field a string
Accepts(type, value) ==
    CASE type = "int" ->
           \/ value.type = "integer"
           \/ value.type = "string" /\ value.v = "100"
      [] type = "optstr" -> value.type \in { "string", "null" }
      [] OTHER -> value.type = "string"

Coerce(type, value) ==
    IF type = "int" THEN [type |-> "integer", v |-> value.v] ELSE value

\* faulty variant of Validates: a missing required field is let through
Validates_IgnoresRequired(name, members) ==
    \A f \in SchemaFields(name) :
        HasKey(members, f) => Accepts(FieldType(name, f), Lookup(members, f))

\* schema(**data) succeeds: no ValidationError (extra keys are ignored)
Validates(name, members) ==
    \A f \in SchemaFields(name) :
        IF HasKey(members, f)
        THEN Accepts(FieldType(name, f), Lookup(members, f))
        ELSE f \notin SchemaRequired(name)

\* the fields of the instance schema(**data)
Instance(name, members) ==
    [f \in SchemaFields(name) |->
        IF HasKey(members, f)
        THEN Coerce(FieldType(name, f), Lookup(members, f))
        ELSE NoneValue]

\* the payloads the provider may send
JoinMembers(ms) ==
    [i \in 1..(IF ms = << >> THEN 0 ELSE 2 * Len(ms) - 1) |->
        IF i % 2 = 1 THEN ms[(i + 1) \div 2] ELSE ","]

ObjectText(ms) == << "{" >> \o JoinMembers(ms) \o << "}" >>

Bodies ==
    { ObjectText(ms) : ms \in SeqsUpTo(MemberTokens, MaxMembers) }
    \cup { << >>, << "[", "]" >>, << "{" >>, << "H", "i" >>,
           << "{", "\"item\": \"Widget\"", ",", "}" >> }

Prefixes == { << >>, << Ws >>, FenceJson, FenceJson \o << Ws >>, Fence \o << Ws >> }
Suffixes == { << >>, << Ws >>, << Ws >> \o Fence, Fence \o << Ws >> }

Texts == { p \o b \o x : p \in Prefixes, b \in Bodies, x \in Suffixes }

(***************************************************************************)
(* The provider adapters: AnthropicLLM, GrokLLM, GroqLLM.                  *)
(***************************************************************************)
Adapters == { "openai", "anthropic", "grok", "groq" }

\* the one tool the tool-calling adapters declare
ToolName == "structured_output"
OtherToolName == "other_tool"

\* max_tokens of the requests (no limit is passed by GrokLLM)
AnthropicMaxTokens == 4096
GroqMaxTokens == 8192

NoneResult == [kind |-> "none", text |-> << >>, fields |-> << >>]
TextResult(raw) == [kind |-> "text", text |-> raw, fields |-> << >>]
ObjectResult(name, members) ==
    [kind |-> "object", text |-> << >>, fields |-> Instance(name, members)]
\* an exception that leaves ainvoke
RaisedResult == [kind |-> "raised", text |-> << >>, fields |-> << >>]

\* no audit run is part of this specification
AuditOff ==
    /\ stage = "Off"
    /\ visited = << >>
    /\ audit_steps = << >>
    /\ structured_data = "none"
    /\ comprehensive_report = NoReport
    /\ audit_results = << >>
    /\ overall_score = NoScore
    /\ calls = [primary |-> 0, reasoning |-> 0, judge |-> 0]
    /\ returned = "none"

InitLLM ==
    /\ AuditOff
    /\ FactoryOff
    /\ AuditorInitOff
    /\ CsvOff
    /\ ConcOff
    /\ PipeOff
    /\ llm_pc = "idle"
    /\ adapter \in Adapters
    /\ schema \in SchemaNames \cup { "none" }
    /\ request = NoRequest
    /\ response = NoResponse
    /\ result = Pending
    /\ requests = 0
    /\ parses = 0

\* the try block of ainvoke up to the awaited provider call
\* faulty variant of SendRequest: the request is sent a second time
SendRequest_Resends(req) ==
    /\ llm_pc = "idle"
    /\ request' = req
    /\ requests' = requests + 2
    /\ llm_pc' = "awaiting"
    /\ UNCHANGED << adapter, schema, response, result, parses >>
    /\ UNCHANGED << auditVars, factoryVars, initVars, csvVars, concVars, pipeVars >>

\* the one provider call of ainvoke (messages.create,
\* chat.completions.create)
SendRequest(req) ==
    /\ llm_pc = "idle"
    /\ request' = req
    /\ requests' = requests + 1
    /\ llm_pc' = "awaiting"
    /\ UNCHANGED << adapter, schema, response, result, parses >>
    /\ UNCHANGED << auditVars, factoryVars, initVars, csvVars, concVars, pipeVars >>

\* the rest of ainvoke once the provider call has returned or raised
Return(resp, res, attempts) ==
    /\ llm_pc = "awaiting"
    /\ response' = resp
    /\ result' = res
    /\ parses' = parses + attempts
    /\ llm_pc' = "done"
    /\ UNCHANGED << adapter, schema, request, requests >>
    /\ UNCHANGED << auditVars, factoryVars, initVars, csvVars, concVars, pipeVars >>

\* faulty variant of ParseInto: the TypeError of a document that is not an
\* object leaves ainvoke
ParseInto_Uncaught(name, text, onDecodeError, onValidationError) ==
    LET data == JsonLoads(text)
    IN  IF ~data.ok THEN onDecodeError
        ELSE IF data.type # "dict" THEN RaisedResult
        ELSE IF Validates(name, data.members)
             THEN ObjectResult(name, data.members)
             ELSE onValidationError

\* json.loads and schema(**data) with the two except clauses of the adapter;
\* a document that is not an object makes schema(**data) raise a TypeError,
\* which only the outer except clause catches (return None)
ParseInto(name, text, onDecodeError, onValidationError) ==
    LET data == JsonLoads(text)
    IN  IF ~data.ok THEN onDecodeError
        ELSE IF data.type # "dict" THEN NoneResult
        ELSE IF Validates(name, data.members)
             THEN ObjectResult(name, data.members)
             ELSE onValidationError

\* AnthropicLLM.ainvoke: the schema goes into the system prompt
AnthropicRequest ==
    /\ adapter = "anthropic"
    /\ SendRequest([system |-> (schema # "none"), tools |-> << >>,
                    tool_choice |-> "none", parameters |-> schema,
                    max_tokens |-> AnthropicMaxTokens])

\* what messages.create can give: an exception, no content block, a first
\* block that is a text block, or a first block of another type (its text
\* field then holds the text of the first text block after it)
AnthropicResponses ==
    { [kind |-> k, name |-> "none", text |-> << >>] : k \in { "error", "empty" } }
    \cup { [kind |-> k, name |-> "none", text |-> t] :
             k \in { "text", "nontext" }, t \in Texts }

\* the payload is the text of the first content block
AnthropicHasPayload(resp) == resp.kind = "text" /\ resp.text # << >>

\* faulty variant of AnthropicResult: without a schema the text is stripped
\* before it is returned
AnthropicResult_StripsRaw(name, resp) ==
    IF ~AnthropicHasPayload(resp) THEN NoneResult
    ELSE IF name = "none" THEN TextResult(Strip(resp.text))
    ELSE ParseInto(name, CleanJsonString(resp.text),
                   TextResult(resp.text), TextResult(resp.text))

\* faulty variant of AnthropicResult: the exception of the provider call is
\* raised again
AnthropicResult_Reraises(name, resp) ==
    IF resp.kind = "error" THEN RaisedResult
    ELSE IF ~AnthropicHasPayload(resp) THEN NoneResult
    ELSE IF name = "none" THEN TextResult(resp.text)
    ELSE ParseInto(name, CleanJsonString(resp.text),
                   TextResult(resp.text), TextResult(resp.text))

\* the rest of AnthropicLLM.ainvoke after the provider call; the outer except
\* clause turns an exception into None
AnthropicResult(name, resp) ==
    IF ~AnthropicHasPayload(resp) THEN NoneResult
    ELSE IF name = "none" THEN TextResult(resp.text)
    ELSE ParseInto(name, CleanJsonString(resp.text),
                   TextResult(resp.text), TextResult(resp.text))

AnthropicReturn ==
    /\ adapter = "anthropic"
    /\ llm_pc = "awaiting"
    /\ \E resp \in AnthropicResponses :
         Return(resp, AnthropicResult(schema, resp),
                IF schema # "none" /\ AnthropicHasPayload(resp) THEN 1 ELSE 0)

\* faulty variant of ToolCallingRequest: the tool is offered, not forced
ToolCallingRequest_AutoChoice(name, maxTokens) ==
    IF name # "none"
    THEN [system |-> FALSE, tools |-> << ToolName >>, tool_choice |-> "auto",
          parameters |-> name, max_tokens |-> maxTokens]
    ELSE [system |-> FALSE, tools |-> << >>, tool_choice |-> "none",
          parameters |-> "none", max_tokens |-> maxTokens]

\* the request of GrokLLM and GroqLLM: with a schema, one tool and a forced
\* tool choice
ToolCallingRequest(name, maxTokens) ==
    IF name # "none"
    THEN [system |-> FALSE, tools |-> << ToolName >>, tool_choice |-> ToolName,
          parameters |-> name, max_tokens |-> maxTokens]
    ELSE [system |-> FALSE, tools |-> << >>, tool_choice |-> "none",
          parameters |-> "none", max_tokens |-> maxTokens]

\* what the chat completion can hold: with a schema, no choice, a message
\* without tool calls, or a first tool call with its name and arguments;
\* without a schema, no choice or a message content
ToolCallingResponses(name) ==
    { [kind |-> k, name |-> "none", text |-> << >>] : k \in { "error", "nochoices" } }
    \cup (IF name # "none"
          THEN { [kind |-> "notoolcalls", name |-> "none", text |-> t] : t \in Texts }
               \cup { [kind |-> "toolcall", name |-> n, text |-> t] :
                        n \in { ToolName, OtherToolName }, t \in Texts }
          ELSE { [kind |-> "content", name |-> "none", text |-> t] : t \in Texts })

\* the first tool call is a call of structured_output
HasStructuredOutputCall(resp) == resp.kind = "toolcall" /\ resp.name = ToolName

\* faulty variant of ToolCallingResult: a payload that does not parse is
\* handed back as raw text, as AnthropicLLM does
ToolCallingResult_RawOnFailure(name, resp) ==
    IF name # "none"
    THEN IF HasStructuredOutputCall(resp)
         THEN ParseInto(name, resp.text, TextResult(resp.text),
                        TextResult(resp.text))
         ELSE NoneResult
    ELSE IF resp.kind = "content" /\ resp.text # << >>
         THEN TextResult(resp.text)
         ELSE NoneResult

\* the rest of GrokLLM.ainvoke and GroqLLM.ainvoke after the provider call
ToolCallingResult(name, resp) ==
    IF name # "none"
    THEN IF HasStructuredOutputCall(resp)
         THEN ParseInto(name, resp.text, NoneResult, NoneResult)
         ELSE NoneResult
    ELSE IF resp.kind = "content" /\ resp.text # << >>
         THEN TextResult(resp.text)
         ELSE NoneResult

ToolCallingParses(name, resp) ==
    IF name # "none" /\ HasStructuredOutputCall(resp) THEN 1 ELSE 0

GrokRequest ==
    /\ adapter = "grok"
    /\ SendRequest(ToolCallingRequest(schema, 0))

GrokReturn ==
    /\ adapter = "grok"
    /\ llm_pc = "awaiting"
    /\ \E resp \in ToolCallingResponses(schema) :
         Return(resp, ToolCallingResult(schema, resp),
                ToolCallingParses(schema, resp))

GroqRequest ==
    /\ adapter = "groq"
    /\ SendRequest(ToolCallingRequest(schema, GroqMaxTokens))

GroqReturn ==
    /\ adapter = "groq"
    /\ llm_pc = "awaiting"
    /\ \E resp \in ToolCallingResponses(schema) :
         Return(resp, ToolCallingResult(schema, resp),
                ToolCallingParses(schema, resp))

\* OpenAILLM.ainvoke as its tests show it: the request of the tool-calling
\* protocol, and the same handling of a tool call; a message without a tool
\* call whose content is JSON accepted by the schema gives an instance
\* (test_ainvoke_no_tool_call_fallback).  What it returns when that content
\* does not parse is not shown: onFailure is either outcome.
OpenAIFallsBack(name, resp) ==
    name # "none" /\ resp.kind = "notoolcalls" /\ resp.text # << >>

OpenAIResult(name, resp, onFailure) ==
    IF OpenAIFallsBack(name, resp)
    THEN ParseInto(name, resp.text, onFailure, onFailure)
    ELSE ToolCallingResult(name, resp)

OpenAIRequest ==
    /\ adapter = "openai"
    /\ SendRequest(ToolCallingRequest(schema, 0))

OpenAIReturn ==
    /\ adapter = "openai"
    /\ llm_pc = "awaiting"
    /\ \E resp \in ToolCallingResponses(schema) :
         \E onFailure \in { NoneResult, TextResult(resp.text) } :
            Return(resp, OpenAIResult(schema, resp, onFailure),
                   IF OpenAIFallsBack(schema, resp) THEN 1
                   ELSE ToolCallingParses(schema, resp))

NextLLM ==
    \/ OpenAIRequest
    \/ OpenAIReturn
    \/ AnthropicRequest
    \/ AnthropicReturn
    \/ GrokRequest
    \/ GrokReturn
    \/ GroqRequest
    \/ GroqReturn

SpecLLM == InitLLM /\ [][NextLLM]_vars

(***************************************************************************)
(* LLMFactory.create_llm and the constructors of the adapters              *)
(***************************************************************************)

\* provider arguments: the supported names in several casings, and others
ProviderIds ==
    { "openai", "OpenAI", "OPENAI", "anthropic", "Anthropic", "ANTHROPIC",
      "grok", "Grok", "GROK", "groq", "Groq", "gRoQ",
      "unsupported", "Gemini", "open ai", "" }
ModelNames == { "gpt-4", "claude-3-opus-20240229" }
Temperatures == { 0, 7 }
ApiKeyArgs == { "none", "", "explicit_key" }
EnvValues == { "unset", "", "env_key" }

\* faulty variant of Lower: the provider is compared as received
Lower_Identity(p) == p

\* str.lower on the provider arguments
Lower(p) ==
    CASE p \in { "OpenAI", "OPENAI" } -> "openai"
      [] p \in { "Anthropic", "ANTHROPIC" } -> "anthropic"
      [] p \in { "Grok", "GROK" } -> "grok"
      [] p \in { "Groq", "gRoQ" } -> "groq"
      [] p = "Gemini" -> "gemini"
      [] OTHER -> p

\* the environment variable each adapter reads
EnvVarOf(cls) ==
    CASE cls = "openai" -> "OPENAI_API_KEY"
      [] cls = "anthropic" -> "ANTHROPIC_API_KEY"
      [] cls = "grok" -> "GROK_API_KEY"
      [] cls = "groq" -> "GROQ_API_KEY"

\* truth value of an optional string: None and "" are false
Truthy(x) == x \notin { "none", "unset", "" }

\* faulty variant of ResolveKey: the environment is read first
ResolveKey_PrefersEnv(arg, envValue) ==
    IF Truthy(envValue) THEN envValue ELSE arg

\* api_key or os.getenv(...)
ResolveKey(arg, envValue) == IF Truthy(arg) THEN arg ELSE envValue

\* the messages of the ValueError of a constructor
MissingKeyMessage(cls) ==
    CASE cls = "openai" -> << "OpenAI API key not found" >>
      [] cls = "anthropic" ->
           << "Anthropic API key not found.",
              " Please set ANTHROPIC_API_KEY environment variable or pass it as an argument." >>
      [] cls = "grok" ->
           << "Grok API key not found.",
              " Please set GROK_API_KEY environment variable or pass it as an argument." >>
      [] cls = "groq" ->
           << "Groq API key not provided and GROQ_API_KEY environment variable not set" >>

\* faulty variant of UnsupportedMessage: the message shows the lowered name
UnsupportedMessage_Lowered(p) ==
    << "Unsupported LLM provider: ", Lower(p), ". Supported providers are ",
       "'openai'", ", ", "'anthropic'", ", ", "'grok'", ", and ", "'groq'",
       "." >>

\* the f-string of the ValueError of create_llm
UnsupportedMessage(p) ==
    << "Unsupported LLM provider: ", p, ". Supported providers are ",
       "'openai'", ", ", "'anthropic'", ", ", "'grok'", ", and ", "'groq'",
       "." >>

InitFactory ==
    /\ AuditOff
    /\ LLMOff
    /\ AuditorInitOff
    /\ CsvOff
    /\ ConcOff
    /\ PipeOff
    /\ f_pc = "idle"
    /\ provider \in ProviderIds
    /\ model_name \in ModelNames
    /\ temperature \in Temperatures
    /\ api_key \in ApiKeyArgs
    /\ env \in [EnvVars -> EnvValues]
    /\ created = NoAdapter
    /\ error = NoError

\* create_llm ends by raising
RaiseValueError(message) ==
    /\ created' = NoAdapter
    /\ error' = [type |-> "ValueError", message |-> message]

\* __init__ of an adapter class: the key is resolved and checked, then the
\* fields are set
Construct(cls) ==
    LET key == ResolveKey(api_key, env[EnvVarOf(cls)])
    IN  /\ IF ~Truthy(key)
           THEN RaiseValueError(MissingKeyMessage(cls))
           ELSE /\ created' = [cls |-> cls, api_key |-> key,
                               model_name |-> model_name,
                               temperature |-> temperature]
                /\ error' = NoError
        /\ f_pc' = "done"
        /\ UNCHANGED << provider, model_name, temperature, api_key, env >>
        /\ UNCHANGED << auditVars, llmVars, initVars, csvVars, concVars, pipeVars >>

\* OpenAILLM.__init__, as tests/llm/test_openai_llm.py shows it
OpenAIConstruct == Construct("openai")

CreateOpenAI ==
    /\ f_pc = "idle"
    /\ Lower(provider) = "openai"
    /\ OpenAIConstruct

CreateAnthropic ==
    /\ f_pc = "idle"
    /\ Lower(provider) = "anthropic"
    /\ Construct("anthropic")

CreateGrok ==
    /\ f_pc = "idle"
    /\ Lower(provider) = "grok"
    /\ Construct("grok")

CreateGroq ==
    /\ f_pc = "idle"
    /\ Lower(provider) = "groq"
    /\ Construct("groq")

CreateUnsupported ==
    /\ f_pc = "idle"
    /\ Lower(provider) \notin { "openai", "anthropic", "grok", "groq" }
    /\ RaiseValueError(UnsupportedMessage(provider))
    /\ f_pc' = "done"
    /\ UNCHANGED << provider, model_name, temperature, api_key, env >>
    /\ UNCHANGED << auditVars, llmVars, initVars, csvVars, concVars, pipeVars >>

NextFactory ==
    \/ CreateOpenAI
    \/ CreateAnthropic
    \/ CreateGrok
    \/ CreateGroq
    \/ CreateUnsupported

SpecFactory == InitFactory /\ [][NextFactory]_vars

(***************************************************************************)
(* EmailAuditor.__init__                                                   *)
(***************************************************************************)

\* what a role's provider variable and model variable can hold; the model
\* variable of a role is <PROVIDER>_<ROLE>_MODEL of the role's provider
RoleProviderValues == { "unset", "openai", "anthropic" }
RoleModelValues == { "unset", "custom-model" }

ProviderVar(role) ==
    CASE role = "primary" -> "PRIMARY_LLM_PROVIDER"
      [] role = "reasoning" -> "REASONING_LLM_PROVIDER"
      [] role = "detail" -> "DETAIL_LLM_PROVIDER"

ModelVar(role) ==
    CASE role = "primary" -> "PRIMARY_MODEL"
      [] role = "reasoning" -> "REASONING_MODEL"
      [] role = "detail" -> "DETAIL_MODEL"

\* the temperature each role client is built with, in tenths
RoleTemperature(role) ==
    CASE role = "primary" -> 0
      [] role = "reasoning" -> 3
      [] role = "detail" -> 1

\* the model every role client is built with
AuditorModel == "gpt-4o"

InitAuditorInit ==
    /\ AuditOff
    /\ LLMOff
    /\ CsvOff
    /\ ConcOff
    /\ PipeOff
    /\ f_pc = "off"
    /\ provider = "none"
    /\ model_name = "none"
    /\ temperature = 0
    /\ api_key = "none"
    /\ env \in [EnvVars -> EnvValues]
    /\ created = NoAdapter
    /\ error = NoError
    /\ a_pc = "idle"
    /\ role_env \in
         { e \in [RoleVars -> RoleProviderValues \cup RoleModelValues] :
             \A r \in Roles : /\ e[ProviderVar(r)] \in RoleProviderValues
                              /\ e[ModelVar(r)] \in RoleModelValues }
    /\ clients = [r \in Roles |-> NoClient]
    /\ factory_calls = << >>
    /\ init_error = NoError

\* __init__: the key is read from OPENAI_API_KEY, then the three clients are
\* built as ChatOpenAI objects; an exception of a ChatOpenAI constructor is
\* logged and raised again
ConstructAuditor ==
    /\ a_pc = "idle"
    /\ \E built \in BOOLEAN :
         IF ~Truthy(env["OPENAI_API_KEY"])
         THEN /\ init_error' =
                   [type |-> "ValueError",
                    message |-> << "OPENAI_API_KEY not found in environment variables" >>]
              /\ clients' = clients
         ELSE IF ~built
         THEN /\ init_error' = [type |-> "Exception", message |-> << >>]
              /\ clients' = clients
         ELSE /\ init_error' = NoError
              /\ clients' =
                   [r \in Roles |->
                      [cls |-> "ChatOpenAI", api_key |-> env["OPENAI_API_KEY"],
                       model_name |-> AuditorModel,
                       temperature |-> RoleTemperature(r)]]
    /\ a_pc' = "done"
    /\ UNCHANGED << role_env, factory_calls >>
    /\ UNCHANGED << auditVars, llmVars, factoryVars, csvVars, concVars, pipeVars >>

NextAuditorInit == ConstructAuditor

SpecAuditorInit == InitAuditorInit /\ [][NextAuditorInit]_vars

(***************************************************************************)
(* One call of generate_csv_report on a list of steps a caller passes.    *)
(***************************************************************************)

CsvIds == { "logical_itinerary", "cross_upsell_opportunity",
            "agent_name_extraction" }
CsvScores == { 67, 70, 100 }
CsvMaxScores == { 0, 30, 54 }

\* {} and the steps of the shapes the tests pass: with all keys, without an
\* id, without a score; and steps keyed by step_id as audit_email builds them
CsvSteps ==
    { << >> }
    \cup [id : CsvIds, score : CsvScores, max_score : CsvMaxScores,
          is_critical : BOOLEAN]
    \cup [score : { 67, 100 }, max_score : { 30 }, is_critical : BOOLEAN]
    \cup [id : { "logical_itinerary" }, max_score : { 54 },
          is_critical : BOOLEAN]
    \cup [step_id : { "logical_itinerary" }, score : { 67, 100 },
          max_score : { 30 }, is_critical : { FALSE }, passed : BOOLEAN,
          category : { "PNR Fields" }]

InitCsv ==
    /\ AuditOff
    /\ LLMOff
    /\ FactoryOff
    /\ AuditorInitOff
    /\ ConcOff
    /\ PipeOff
    /\ csv_pc = "idle"
    /\ csv_input \in SeqsUpTo(CsvSteps, MaxResults)
    /\ csv_row = NoRow

GenerateCsvReport ==
    /\ csv_pc = "idle"
    /\ csv_row' = CsvRow(csv_input)
    /\ csv_pc' = "done"
    /\ UNCHANGED csv_input
    /\ UNCHANGED << auditVars, llmVars, factoryVars, initVars, concVars, pipeVars >>

NextCsv == GenerateCsvReport

SpecCsv == InitCsv /\ [][NextCsv]_vars

(***************************************************************************)
(* Two audits on one auditor.  audit_email suspends at its two awaits      *)
(* (the structuring call and the scoring call); what runs between two      *)
(* awaits of one audit is one step.                                        *)
(***************************************************************************)

\* the conversations the structuring call can give back
Conversations == { "thread_x", "thread_y" }

\* what the scoring call can give back to one of the two audits
ConcReports ==
    { [kind |-> "raised", results |-> << >>] }
    \cup { [kind |-> "object", results |-> rs] :
             rs \in { << >> } \cup { << r >> : r \in StepResult } }

\* the clients a constructed auditor holds
BuiltClients ==
    [r \in Roles |->
       [cls |-> "ChatOpenAI", api_key |-> "env_key",
        model_name |-> AuditorModel, temperature |-> RoleTemperature(r)]]

InitConc ==
    /\ LLMOff
    /\ FactoryOff
    /\ CsvOff
    /\ PipeOff
    /\ stage = "Off"
    /\ visited = << >>
    /\ audit_steps \in { SubSeq(AllAuditSteps, 1, n) : n \in 0..MaxCriteria }
    /\ structured_data = "none"
    /\ comprehensive_report = NoReport
    /\ audit_results = << >>
    /\ overall_score = NoScore
    /\ calls = [primary |-> 0, reasoning |-> 0, judge |-> 0]
    /\ returned = "none"
    /\ a_pc = "done"
    /\ role_env = [v \in RoleVars |-> "unset"]
    /\ clients = BuiltClients
    /\ factory_calls = << >>
    /\ init_error = NoError
    /\ c_stage = [a \in Audits |-> "Start"]
    /\ c_given = [a \in Audits |-> NoLocals]
    /\ c_report = [a \in Audits |-> NoLocals]
    /\ c_results = [a \in Audits |-> NoReturn]
    /\ c_score = [a \in Audits |-> NoScore]

\* what no step of audit_email assigns
ConcFrame ==
    UNCHANGED << auditVars, llmVars, factoryVars, initVars, csvVars, pipeVars >>

\* Step 1 up to the await of the structuring call
ConcStart(a) ==
    /\ c_stage[a] = "Start"
    /\ c_stage' = [c_stage EXCEPT ![a] = "Structure"]
    /\ UNCHANGED << c_given, c_report, c_results, c_score >>
    /\ ConcFrame

\* faulty variant of ConcStructured: messages is kept on the auditor, where
\* the other audit writes it too
ConcStructured_SharedMessages(a) ==
    /\ c_stage[a] = "Structure"
    /\ \E conv \in Conversations \cup { "none" } :
         /\ c_given' = [c_given EXCEPT ![a].messages = conv]
         /\ IF conv = "none"
            THEN /\ c_stage' = [c_stage EXCEPT ![a] = "Raised"]
                 /\ UNCHANGED c_report
            ELSE /\ c_stage' = [c_stage EXCEPT ![a] = "Score"]
                 /\ c_report' =
                      [b \in Audits |-> [c_report[b] EXCEPT !.messages = conv]]
    /\ UNCHANGED << c_results, c_score >>
    /\ ConcFrame

\* the structuring call returns: messages is built from its answer, the
\* prompt from self.audit_steps, up to the await of the scoring call; an
\* answer that is no conversation makes the audit raise
ConcStructured(a) ==
    /\ c_stage[a] = "Structure"
    /\ \E conv \in Conversations \cup { "none" } :
         /\ c_given' = [c_given EXCEPT ![a].messages = conv]
         /\ IF conv = "none"
            THEN /\ c_stage' = [c_stage EXCEPT ![a] = "Raised"]
                 /\ UNCHANGED c_report
            ELSE /\ c_stage' = [c_stage EXCEPT ![a] = "Score"]
                 /\ c_report' = [c_report EXCEPT ![a].messages = conv]
    /\ UNCHANGED << c_results, c_score >>
    /\ ConcFrame

\* the scoring call returns: the results are built and scored and the
\* dictionary is returned, with no await in between
ConcScored(a) ==
    /\ c_stage[a] = "Score"
    /\ \E report \in ConcReports :
         /\ c_given' = [c_given EXCEPT ![a].report = report]
         /\ c_report' = [c_report EXCEPT ![a].report = report]
         /\ IF report.kind # "object"
            THEN /\ c_stage' = [c_stage EXCEPT ![a] = "Raised"]
                 /\ UNCHANGED << c_results, c_score >>
            ELSE LET kept == BuildAuditResults(report.results, audit_steps)
                 IN  /\ c_stage' = [c_stage EXCEPT ![a] = "Done"]
                     /\ c_results' =
                          [c_results EXCEPT
                             ![a] = [history |-> c_report[a].messages,
                                     detailed |-> kept]]
                     /\ c_score' =
                          [c_score EXCEPT ![a] = OverallScore(kept, audit_steps)]
    /\ ConcFrame

NextConc ==
    \E a \in Audits :
        \/ ConcStart(a)
        \/ ConcStructured(a)
        \/ ConcScored(a)

SpecConc == InitConc /\ [][NextConc]_vars

(***************************************************************************)
(* The pipeline and its StateManager.  One call of process_eml_file is one *)
(* step: run awaits each call before it starts the next.  The case number  *)
(* CASE_<second> is modelled by the second it is taken from.               *)
(***************************************************************************)

\* the places where a call of process_eml_file can raise
FailurePoints ==
    { "mkdir", "convert", "audit", "report", "copy", "save", "cleanup" }

\* the components a call has invoked when it raises at a given place
TouchedAt(point) ==
    CASE point \in { "mkdir" } -> { "folder" }
      [] point \in { "convert" } -> { "folder", "parser" }
      [] OTHER -> { "folder", "parser", "auditor" }

InitPipeline ==
    /\ AuditOff
    /\ LLMOff
    /\ FactoryOff
    /\ AuditorInitOff
    /\ CsvOff
    /\ ConcOff
    /\ p_up = TRUE
    /\ p_state = [f \in Files |-> NoCase]
    /\ p_file = [ok |-> TRUE, data |-> [f \in Files |-> NoCase]]
    /\ clock = 0
    /\ folders = [c \in Cases |-> NoFolder]
    /\ p_last = NoResult
    /\ p_succeeded = [f \in Files |-> NoCase]

PipeFrame ==
    UNCHANGED << auditVars, llmVars, factoryVars, initVars, csvVars, concVars >>

\* StateManager.is_processed
is_processed(f) == p_state[f] # NoCase

\* StateManager.create_case_folder: the folder of the current second, made
\* with exist_ok=True
create_case_folder(fs) == [fs EXCEPT ![clock].exists = TRUE]

\* the copies of move_to_case_folder
copy_to_case_folder(fs, f) ==
    [fs EXCEPT ![clock] = [exists |-> TRUE, files |-> fs[clock].files \cup { f }]]

\* process_eml_file on a file the state already holds
ProcessSkipped(f) ==
    /\ p_up
    /\ is_processed(f)
    /\ p_last' = [status |-> "skipped", eml_file |-> f,
                  case_number |-> p_state[f], touched |-> {}]
    /\ UNCHANGED << p_up, p_state, p_file, clock, folders, p_succeeded >>
    /\ PipeFrame

\* process_eml_file where every step succeeds
ProcessSucceeds(f) ==
    /\ p_up
    /\ ~is_processed(f)
    /\ folders' = copy_to_case_folder(folders, f)
    /\ p_state' = [p_state EXCEPT ![f] = clock]
    /\ p_file' = [ok |-> TRUE, data |-> p_state']
    /\ p_last' = [status |-> "success", eml_file |-> f,
                  case_number |-> clock,
                  touched |-> { "folder", "parser", "auditor" }]
    /\ p_succeeded' = [p_succeeded EXCEPT ![f] = clock]
    /\ UNCHANGED << p_up, clock >>
    /\ PipeFrame

\* process_eml_file where a step raises an Exception, which is caught
ProcessFails(f) ==
    /\ p_up
    /\ ~is_processed(f)
    /\ \E point \in FailurePoints :
         /\ p_last' = [status |-> "error", eml_file |-> f,
                       case_number |-> NoCase, touched |-> TouchedAt(point)]
         /\ CASE point = "mkdir" ->
                  UNCHANGED << folders, p_state, p_file >>
              [] point \in { "convert", "audit", "report" } ->
                  /\ folders' = create_case_folder(folders)
                  /\ UNCHANGED << p_state, p_file >>
              [] point = "copy" ->
                  /\ folders' \in { create_case_folder(folders),
                                    copy_to_case_folder(folders, f) }
                  /\ UNCHANGED << p_state, p_file >>
              [] point = "save" ->
                  /\ folders' = copy_to_case_folder(folders, f)
                  /\ p_state' = [p_state EXCEPT ![f] = clock]
                  /\ p_file' \in { p_file, [p_file EXCEPT !.ok = FALSE] }
              [] point = "cleanup" ->
                  /\ folders' = copy_to_case_folder(folders, f)
                  /\ p_state' = [p_state EXCEPT ![f] = clock]
                  /\ p_file' = [ok |-> TRUE, data |-> p_state']
    /\ UNCHANGED << p_up, clock, p_succeeded >>
    /\ PipeFrame

\* a second passes
Tick ==
    /\ clock < MaxClock
    /\ clock' = clock + 1
    /\ UNCHANGED << p_up, p_state, p_file, folders, p_last, p_succeeded >>
    /\ PipeFrame

\* faulty variant of Restart: the new StateManager starts from an empty state
Restart_Forgets ==
    /\ IF p_file.ok
       THEN /\ p_up' = TRUE
            /\ p_state' = [f \in Files |-> NoCase]
       ELSE /\ p_up' = FALSE
            /\ UNCHANGED p_state
    /\ p_last' = NoResult
    /\ UNCHANGED << p_file, clock, folders, p_succeeded >>
    /\ PipeFrame

\* the program is started again: StateManager.__init__ loads the state file,
\* and raises when the file is no JSON document
Restart ==
    /\ IF p_file.ok
       THEN /\ p_up' = TRUE
            /\ p_state' = p_file.data
       ELSE /\ p_up' = FALSE
            /\ UNCHANGED p_state
    /\ p_last' = NoResult
    /\ UNCHANGED << p_file, clock, folders, p_succeeded >>
    /\ PipeFrame

NextPipeline ==
    \/ \E f \in Files : ProcessSkipped(f)
    \/ \E f \in Files : ProcessSucceeds(f)
    \/ \E f \in Files : ProcessFails(f)
    \/ Tick
    \/ Restart

SpecPipeline == InitPipeline /\ [][NextPipeline]_vars

(***************************************************************************)
(* Properties of one audit run (specification Spec).                       *)
(***************************************************************************)
StructureFailed == calls.primary > 0 /\ structured_data # "object"
ScoreFailed == calls.reasoning > 0 /\ comprehensive_report.kind # "object"

\* C1: when the Structure stage does not yield a validated conversation
\* object (raw text, null or a failed call), the audit ends with a propagated
\* error and neither the reasoning client nor a judge client is invoked.
C1_StructureFailureAborts ==
    StructureFailed =>
        /\ returned = "raised"
        /\ stage = "Failed"
        /\ calls.reasoning = 0
        /\ calls.judge = 0

C1_Witness ==
    /\ StructureFailed
    /\ structured_data = "text"
    /\ returned = "raised"

\* C2: a run that reaches Done has entered the stages in the order Start,
\* Structure, Score, Judge, Aggregate, Done, each exactly once.
C2_StagesInOrder ==
    stage = "Done" =>
        visited = << "Start", "Structure", "Score", "Judge", "Aggregate", "Done" >>

\* one result per checklist entry, in any order
OnePerCriterion(results, steps) ==
    \A i \in 1..Len(steps) :
        Cardinality({ j \in 1..Len(results) : results[j].step_id = steps[i].id }) = 1

RECURSIVE WeightedSum(_)
\* sum of score_i * weight_i over the kept results (tenths * tenths)
WeightedSum(results) ==
    IF results = << >> THEN 0
    ELSE Head(results).score * Head(results).max_score + WeightedSum(Tail(results))

\* sum(score_i * weight_i) / sum(weight_i), 0 for an empty checklist
WeightedAverage(results, steps) ==
    IF MaxScore(steps) > 0
    THEN [num |-> WeightedSum(results), den |-> 10 * MaxScore(steps)]
    ELSE [num |-> 0, den |-> 1]

\* C4: the overall score of a finished audit is the weighted average of the
\* fractional scores, sum(score_i * weight_i) / sum(weight_i), over all
\* criteria whether passed or not.
C4_OverallIsWeightedAverage ==
    (stage = "Done" /\ OnePerCriterion(audit_results, audit_steps)) =>
        RatEq(overall_score, WeightedAverage(audit_results, audit_steps))

\* C5: every StepResult of the returned report has passed = TRUE exactly when
\* its score is at least 0.7, whatever passed value the scoring model gave.
C5_PassedIffScoreAtLeastPassMark ==
    stage = "Done" =>
        \A i \in 1..Len(audit_results) :
            audit_results[i].passed <=> (audit_results[i].score >= PassMark)

\* C6: with an empty checklist an audit whose two calls succeeded returns an
\* empty result list and an overall score of exactly 0, with no division by
\* zero, whatever results the scoring model returned.
C6_EmptyCriteriaScoreZero ==
    (audit_steps = << >> /\ comprehensive_report.kind = "object") =>
        /\ stage \in { "Aggregate", "Done" }
        /\ stage = "Aggregate" => ENABLED Aggregate
        /\ stage = "Done" =>
              /\ returned = "result"
              /\ audit_results = << >>
              /\ overall_score.den > 0
              /\ overall_score.num = 0

C6_Witness ==
    /\ stage = "Done"
    /\ audit_steps = << >>
    /\ Len(comprehensive_report.results) = MaxResults

\* C7: after a successful audit the detailed results hold exactly one
\* StepResult for each criterion id of the checklist.
C7_OneResultPerCriterion ==
    stage = "Done" => OnePerCriterion(audit_results, audit_steps)

\* C8: when the Score stage does not yield a validated report object the
\* audit ends with a propagated error and no aggregate result; a result is
\* returned only when both the Structure and the Score stage yielded a
\* validated object.
C8_ScoreFailureAborts ==
    /\ ScoreFailed =>
          /\ returned = "raised"
          /\ stage = "Failed"
          /\ audit_results = << >>
          /\ overall_score = NoScore
    /\ returned = "result" =>
          /\ structured_data = "object"
          /\ comprehensive_report.kind = "object"

C8_Witness ==
    /\ ScoreFailed
    /\ comprehensive_report.kind = "none"
    /\ returned = "raised"

(***************************************************************************)
(* Properties of one adapter call (specification SpecLLM).                 *)
(***************************************************************************)
\* a value of exactly the JSON type the schema declares for the field
MatchesType(type, value) ==
    CASE type = "int" -> value.type = "integer"
      [] type = "optstr" -> value.type \in { "string", "null" }
      [] OTHER -> value.type = "string"

\* the text is a well-formed JSON object that matches the schema
CarriesMatchingJson(name, text) ==
    LET data == JsonLoads(text)
    IN  /\ data.ok
        /\ data.type = "dict"
        /\ \A f \in SchemaFields(name) :
             IF HasKey(data.members, f)
             THEN MatchesType(FieldType(name, f), Lookup(data.members, f))
             ELSE f \notin SchemaRequired(name)

\* the result is an instance of the schema holding the values of the payload
ReturnsParsedPayload(name, text, res) ==
    /\ res.kind = "object"
    /\ DOMAIN res.fields = SchemaFields(name)
    /\ \A f \in SchemaFields(name) :
         res.fields[f] = IF HasKey(JsonLoads(text).members, f)
                         THEN Lookup(JsonLoads(text).members, f)
                         ELSE NoneValue

\* the call was made with a schema and the response has a first text block
\* (Anthropic) or a first tool call (Grok, Groq)
SchemaCallAnswered ==
    /\ llm_pc = "done"
    /\ schema # "none"
    /\ IF adapter = "anthropic" THEN response.kind \in { "text", "nontext" }
                                ELSE response.kind = "toolcall"

\* the first content block of the response is the payload the adapter reads:
\* a text block (Anthropic) or a call of structured_output (Grok, Groq)
FirstBlockIsPayload ==
    IF adapter = "anthropic" THEN response.kind = "text"
                             ELSE HasStructuredOutputCall(response)

\* C9 as stated: for every adapter and schema, a first content block (first
\* tool call or first text block) carrying well-formed JSON that matches the
\* schema makes ainvoke return an instance with the payload's values.
C9_RoundTripAnyFirstBlock ==
    (SchemaCallAnswered /\ CarriesMatchingJson(schema, response.text)) =>
        ReturnsParsedPayload(schema, response.text, result)

\* C9 amended: the same, where the first content block of the response is a
\* text block (Anthropic) or a call of the structured_output tool (Grok,
\* Groq).
C9_RoundTrip ==
    ( /\ SchemaCallAnswered
      /\ FirstBlockIsPayload
      /\ CarriesMatchingJson(schema, response.text) ) =>
        ReturnsParsedPayload(schema, response.text, result)

C9_Witness ==
    /\ SchemaCallAnswered
    /\ adapter = "grok"
    /\ schema = "StepResult"
    /\ response.name = ToolName
    /\ response.text = << Ws >> \o ObjectText(<< "\"title\": \"T\"" >>)
    /\ result.kind = "object"
    /\ result.fields["improvements"] = NoneValue

\* the payload ainvoke tries to parse does not parse into the schema: it is
\* not JSON, or it is JSON that is not an object accepted by the schema
PayloadFailsToParse ==
    LET text == IF adapter = "anthropic" THEN CleanJsonString(response.text)
                                         ELSE response.text
        data == JsonLoads(text)
    IN  \/ ~data.ok
        \/ data.type # "dict"
        \/ ~Validates(schema, data.members)

\* C10: for every adapter, when a schema is given and the returned payload
\* fails to parse (bad JSON syntax, or JSON of the wrong shape or types),
\* ainvoke returns the raw text payload exactly as received.
C10_ParseFailureReturnsRawText ==
    ( /\ SchemaCallAnswered
      /\ adapter \in { "anthropic", "grok", "groq" }
      /\ FirstBlockIsPayload
      /\ response.text # << >>
      /\ PayloadFailsToParse ) =>
        result = TextResult(response.text)

\* the first tool call is a call of structured_output whose arguments are
\* well-formed JSON that the schema does not accept
ToolCallFailsValidation ==
    /\ llm_pc = "done"
    /\ schema # "none"
    /\ adapter # "anthropic"
    /\ HasStructuredOutputCall(response)
    /\ JsonLoads(response.text).ok
    /\ \/ JsonLoads(response.text).type # "dict"
       \/ ~Validates(schema, JsonLoads(response.text).members)

ProviderCallFailed == llm_pc = "done" /\ response.kind = "error"

\* C12 as stated: when the provider call itself fails, ainvoke surfaces the
\* failure as an error; it is never turned into a normal return value.
C12_ProviderErrorRaises ==
    ProviderCallFailed => result.kind = "raised"

\* C12: when the provider call itself fails, ainvoke catches the exception
\* and returns None; nothing is raised to the caller.
C12_ProviderErrorReturnsNone ==
    ProviderCallFailed => result = NoneResult

C12_Witness ==
    /\ ProviderCallFailed
    /\ adapter = "anthropic"
    /\ requests = 1
    /\ result = NoneResult

\* the provider call raised, the response is empty, or the first tool call
\* has an unexpected name
InvocationFailed ==
    \/ response.kind \in { "error", "empty", "nochoices" }
    \/ response.kind = "toolcall" /\ response.name # ToolName

\* C13: for every adapter and every provider outcome, ainvoke finishes by
\* returning a schema instance, a string or None, and never raises; it
\* returns None whenever the invocation failed.
C13_AinvokeNeverRaises ==
    /\ llm_pc = "awaiting" => ENABLED NextLLM
    /\ llm_pc = "done" =>
         /\ result.kind \in { "object", "text", "none" }
         /\ InvocationFailed => result = NoneResult

C13_Witness ==
    /\ llm_pc = "done"
    /\ adapter = "grok"
    /\ schema # "none"
    /\ response.kind = "toolcall"
    /\ response.name = OtherToolName
    /\ result = NoneResult

\* C14 as stated: each call sends exactly one request and makes exactly one
\* parse-and-validate attempt, on every path.
C14_OneRequestOneParse ==
    llm_pc = "done" => requests = 1 /\ parses = 1

\* C14: each call sends exactly one request and makes at most one
\* parse-and-validate attempt: one whenever an instance is returned, none
\* without a schema, on an empty response or on a provider error.
C14_OneRequestAtMostOneParse ==
    llm_pc = "done" =>
        /\ requests = 1
        /\ parses \in { 0, 1 }
        /\ result.kind = "object" => parses = 1
        /\ (schema = "none" \/ response.kind \in { "error", "empty", "nochoices" })
             => parses = 0

C14_Witness ==
    /\ llm_pc = "done"
    /\ adapter = "anthropic"
    /\ schema # "none"
    /\ result.kind = "text"
    /\ requests = 1
    /\ parses = 1

\* a call without a schema has finished
NoSchemaCallAnswered == llm_pc = "done" /\ schema = "none"

\* some content block of the response holds text
HasTextBlock(resp) ==
    resp.kind \in { "text", "nontext", "content" } /\ resp.text # << >>

\* the first content block (Anthropic) or the first choice (Grok, Groq,
\* OpenAI) holds text
FirstBlockHasText(resp) ==
    resp.kind \in { "text", "content" } /\ resp.text # << >>

\* C15 as stated: without a schema, ainvoke returns the raw text of the
\* response unchanged, and returns None only if the provider returned no
\* usable content block; nothing else makes a call without a schema return
\* None.
C15_NoSchemaNoneOnlyWithoutContent ==
    NoSchemaCallAnswered =>
        /\ result = NoneResult =>
             response.kind # "error" /\ ~HasTextBlock(response)
        /\ result # NoneResult => result = TextResult(response.text)

\* C15: without a schema, ainvoke returns the text of the first content block
\* or first choice unchanged, and returns None exactly when that block holds
\* no text or the provider call failed.
C15_NoSchemaReturnsFirstBlockText ==
    NoSchemaCallAnswered =>
        IF FirstBlockHasText(response)
        THEN result = TextResult(response.text)
        ELSE result = NoneResult

C15_Witness ==
    /\ NoSchemaCallAnswered
    /\ adapter = "anthropic"
    /\ response.kind = "text"
    /\ response.text = << Ws, "H", "i" >>
    /\ result = TextResult(<< Ws, "H", "i" >>)

\* the text is the body inside a markdown fence, tagged json or bare
FencedAs(text, body) ==
    \E open \in { FenceJson, Fence } :
        text = open \o << Ws >> \o body \o << Ws >> \o Fence

\* C16: a response body that wraps a JSON payload in a markdown fence, with a
\* json tag or bare, gives the same result as the payload without the fence:
\* the instance of the schema when the payload is accepted.
C16_FencedParsesLikeUnfenced ==
    \A body \in Bodies :
        ( /\ SchemaCallAnswered
          /\ adapter = "anthropic"
          /\ response.kind = "text"
          /\ FencedAs(response.text, body)
          /\ JsonLoads(body).ok
          /\ JsonLoads(body).type = "dict"
          /\ Validates(schema, JsonLoads(body).members) )
        => result = ObjectResult(schema, JsonLoads(body).members)

\* the spellings of each supported provider among the provider arguments
Spellings(cls) ==
    CASE cls = "openai" -> { "openai", "OpenAI", "OPENAI" }
      [] cls = "anthropic" -> { "anthropic", "Anthropic", "ANTHROPIC" }
      [] cls = "grok" -> { "grok", "Grok", "GROK" }
      [] cls = "groq" -> { "groq", "Groq", "gRoQ" }

SupportedSpellings == UNION { Spellings(cls) : cls \in Adapters }

\* the supported names as the message quotes them
QuotedNames == { "'openai'", "'anthropic'", "'grok'", "'groq'" }

Contains(message, part) == \E i \in 1..Len(message) : message[i] = part

\* C17: for every provider identifier outside the supported set (matched
\* without regard to case), create_llm fails with the unsupported-provider
\* error and constructs no adapter; the message holds the identifier exactly
\* as received and names the supported providers.
C17_UnsupportedProviderRejected ==
    (f_pc = "done" /\ provider \notin SupportedSpellings) =>
        /\ created = NoAdapter
        /\ error.type = "ValueError"
        /\ error.message[1] = "Unsupported LLM provider: "
        /\ error.message[2] = provider
        /\ \A name \in QuotedNames : Contains(error.message, name)

C17_Witness ==
    /\ f_pc = "done"
    /\ provider = "Gemini"
    /\ created = NoAdapter
    /\ error.message[2] = "Gemini"

\* a key is supplied by the argument or by the variable the adapter reads
CredentialAvailable(cls) ==
    \/ api_key = "explicit_key"
    \/ env[EnvVarOf(cls)] = "env_key"

\* C18: for every supported provider identifier, in any letter casing and
\* with a credential available, create_llm returns the adapter of that
\* provider, whose model_name and temperature equal the arguments.
C18_SupportedProviderCreated ==
    \A cls \in Adapters :
        ( /\ f_pc = "done"
          /\ provider \in Spellings(cls)
          /\ CredentialAvailable(cls) )
        => /\ error = NoError
           /\ created.cls = cls
           /\ created.model_name = model_name
           /\ created.temperature = temperature

C18_Witness ==
    /\ f_pc = "done"
    /\ provider = "ANTHROPIC"
    /\ created.cls = "anthropic"
    /\ created.model_name = "claude-3-opus-20240229"
    /\ created.temperature = 7

\* C19: constructing an adapter fails with the missing-key error if and only
\* if neither the api_key argument nor the <PROVIDER>_API_KEY variable
\* supplies a non-empty key; when both do, the argument is the key kept.
C19_MissingKeyIffNoKey ==
    \A cls \in Adapters :
        (f_pc = "done" /\ provider \in Spellings(cls)) =>
            /\ (error = [type |-> "ValueError",
                         message |-> MissingKeyMessage(cls)])
                 <=> ~CredentialAvailable(cls)
            /\ error = NoError <=> CredentialAvailable(cls)
            /\ (api_key = "explicit_key" /\ env[EnvVarOf(cls)] = "env_key")
                 => created.api_key = "explicit_key"

C19_Witness ==
    /\ f_pc = "done"
    /\ provider = "grok"
    /\ api_key = "explicit_key"
    /\ env["GROK_API_KEY"] = "env_key"
    /\ created.cls = "grok"
    /\ created.api_key = "explicit_key"

\* a tool-calling adapter has sent the request of a call with a schema
ToolCallingSchemaCall(adapters) ==
    /\ adapter \in adapters
    /\ schema # "none"
    /\ llm_pc \in { "awaiting", "done" }

\* the request declares the one tool structured_output with the schema as
\* its parameters, and the tool choice forces it
ForcesStructuredOutput(req) ==
    /\ req.tools = << ToolName >>
    /\ req.parameters = schema
    /\ req.tool_choice = ToolName

\* the finished call got a response without a tool call
AnsweredWithoutToolCall ==
    llm_pc = "done" /\ response.kind \in { "nochoices", "notoolcalls" }

ConfiguredProvider(role) ==
    IF role_env[ProviderVar(role)] = "unset" THEN "openai"
    ELSE role_env[ProviderVar(role)]

ConfiguredModel(role) ==
    IF role_env[ModelVar(role)] = "unset" THEN "gpt-4"
    ELSE role_env[ModelVar(role)]

\* C21: constructing the auditor makes exactly one factory call per role,
\* with temperatures 0.0, 0.3 and 0.1 for primary, reasoning and detail and
\* with the provider and model of the role's environment variables (openai
\* and gpt-4 when unset); each role attribute holds the client the factory
\* returned for it.
C21_RoleClientsFromFactory ==
    (a_pc = "done" /\ init_error = NoError) =>
        /\ Len(factory_calls) = 3
        /\ \A r \in Roles :
             \E i \in 1..Len(factory_calls) :
                /\ factory_calls[i].provider = ConfiguredProvider(r)
                /\ factory_calls[i].model_name = ConfiguredModel(r)
                /\ factory_calls[i].temperature = RoleTemperature(r)
                /\ clients[r] = factory_calls[i].returned

(***************************************************************************)
(* Further properties of one audit run (specification Spec).               *)
(***************************************************************************)

\* an audit has returned its result dictionary
AuditReturned == stage = "Done" /\ returned = "result"

\* the result has the flag, category and weight of this checklist entry
CarriesMetadataOf(res, step) ==
    /\ step.id = res.step_id
    /\ res.is_critical = step.isCritical
    /\ res.category = step.category
    /\ res.max_score = step.score

\* the weight of the criterion a result names, 0 when it names none
MatchedWeight(res, steps) ==
    IF \E j \in 1..Len(steps) : steps[j].id = res.step_id
    THEN steps[CHOOSE j \in 1..Len(steps) : steps[j].id = res.step_id].score
    ELSE 0

RECURSIVE PassedMatchedWeight(_, _)
\* the weights of the passed results that name a criterion, summed
PassedMatchedWeight(results, steps) ==
    IF results = << >> THEN 0
    ELSE (IF Head(results).passed THEN MatchedWeight(Head(results), steps)
          ELSE 0) + PassedMatchedWeight(Tail(results), steps)

\* C24: every StepResult kept in the final report carries the isCritical
\* flag, category and weight of the criterion whose id equals its step id; a
\* StepResult whose step id matches no criterion is not in the final report
\* and adds nothing to the overall score.
C24_KeptResultsCarryMetadata ==
    AuditReturned =>
        /\ \A i \in 1..Len(audit_results) :
             \E j \in 1..Len(audit_steps) :
                CarriesMetadataOf(audit_results[i], audit_steps[j])
        /\ Len(audit_results) =
             Cardinality({ i \in 1..Len(comprehensive_report.results) :
                 HasMetadata(audit_steps, comprehensive_report.results[i].step_id) })
        /\ overall_score.num =
             PassedMatchedWeight(comprehensive_report.results, audit_steps)

C24_Witness ==
    /\ AuditReturned
    /\ Len(comprehensive_report.results) = 2
    /\ comprehensive_report.results[1].step_id = UnknownStepId
    /\ comprehensive_report.results[1].passed
    /\ Len(audit_results) = 1
    /\ audit_results[1].step_id = "frequent_flyer_loyalty"
    /\ audit_results[1].max_score = WeightHigh
    /\ audit_results[1].category = "PNR Fields"

\* C30: the overall score of a successful audit lies between 0 and 1
\* inclusive for every list of step results the scoring model may return,
\* lists that repeat a criterion id included.
C30_OverallScoreInUnitInterval ==
    AuditReturned =>
        /\ overall_score.den > 0
        /\ 0 <= overall_score.num
        /\ overall_score.num <= overall_score.den

(***************************************************************************)
(* Properties of the CSV report (specifications SpecCsv and Spec).         *)
(***************************************************************************)

\* a data row has been produced from a list a caller passed
CsvReported == csv_pc = "done" /\ csv_row.written

\* the step is critical and has a score below 0.7
CriticalBelowPassMark(step) ==
    /\ "is_critical" \in DOMAIN step
    /\ step.is_critical
    /\ "score" \in DOMAIN step
    /\ step.score < 70

\* C22: the FATAL Transaction column is "Fatal Error" if and only if at least
\* one step result is critical and has a score below 0.7, and "NO" otherwise;
\* Score without Fatal is "NA" exactly when the row is fatal and otherwise
\* equals the Quality Score column.
C22_FatalColumns ==
    CsvReported =>
        /\ csv_row.fatal = "Fatal Error" <=>
             \E i \in 1..Len(csv_input) : CriticalBelowPassMark(csv_input[i])
        /\ csv_row.fatal \in { "Fatal Error", "NO" }
        /\ csv_row.without_fatal.text = "NA" <=> csv_row.fatal = "Fatal Error"
        /\ csv_row.fatal = "NO" => csv_row.without_fatal = csv_row.quality

C22_Witness ==
    /\ CsvReported
    /\ Len(csv_input) = 2
    /\ CriticalBelowPassMark(csv_input[1])
    /\ ~CriticalBelowPassMark(csv_input[2])
    /\ csv_row.fatal = "Fatal Error"
    /\ csv_row.without_fatal.text = "NA"
    /\ csv_row.quality.text = "percent"

\* the last step of the list that has this id
LastWithId(steps, id) ==
    CHOOSE i \in 1..Len(steps) :
        /\ "id" \in DOMAIN steps[i] /\ steps[i].id = id
        /\ \A j \in (i + 1)..Len(steps) :
             ~("id" \in DOMAIN steps[j] /\ steps[j].id = id)

\* the cell, in hundredths, is the hundredth nearest to the product, which
\* is in thousandths
NearestHundredth(cell, product) ==
    /\ 10 * cell - product <= 5
    /\ product - 10 * cell <= 5

\* C23: for every column of TITLE_TO_ID_MAPPING the row holds
\* round(score * max_score, 2) of the step result whose id is the mapped id,
\* and 0.0 when no step result has that id; entries without an id are passed
\* over.
C23_MappedColumns ==
    CsvReported =>
        \A t \in CsvTitles :
            IF \E i \in 1..Len(csv_input) :
                  "id" \in DOMAIN csv_input[i] /\ csv_input[i].id = TitleToId(t)
            THEN LET step == csv_input[LastWithId(csv_input, TitleToId(t))]
                 IN  IF { "score", "max_score" } \subseteq DOMAIN step
                     THEN NearestHundredth(csv_row.scores[t],
                                           step.score * step.max_score)
                     ELSE csv_row.scores[t] = 0
            ELSE csv_row.scores[t] = 0

C23_Witness ==
    /\ CsvReported
    /\ AuditOff
    /\ csv_input =
         << << >>,
            [id |-> "logical_itinerary", score |-> 67, max_score |-> 54,
             is_critical |-> FALSE] >>
    /\ csv_row.scores["Logical Itinerary (Time window, Routing, Connections)"] = 362
    /\ csv_row.scores["Oppurtunities"] = 0

\* the title of a criterion of the checklist, which is the title of its
\* CSV column
StepTitle(id) ==
    CASE id = "logical_itinerary" ->
           "Logical Itinerary (Time window, Routing, Connections)"
      [] id = "frequent_flyer_loyalty" ->
           "Frequent Flyer - Air & Loyalty Membership - Car, Hotels"
      [] id = "limo_offering_address_phone" ->
           "Offered Limo where applicable and Ensuring complete address & phone number"
      [] id = "accurate_accounting_line_pac" ->
           "Process accurate accounting line - PAC"

\* C26: when the result of audit_email is passed to generate_csv_report, the
\* column titled after a criterion holds score * weight of a result the
\* auditor returned for that criterion: no scored criterion is reported as
\* 0.0 for want of a matching key or id.
C26_AuditScoresReachCsv ==
    (AuditReturned /\ csv_pc = "done") =>
        \A j \in 1..Len(audit_steps) :
            (\E i \in 1..Len(audit_results) :
                audit_results[i].step_id = audit_steps[j].id)
            => \E i \in 1..Len(audit_results) :
                  /\ audit_results[i].step_id = audit_steps[j].id
                  /\ csv_row.scores[StepTitle(audit_steps[j].id)] =
                       audit_results[i].score * audit_results[i].max_score

(***************************************************************************)
(* Properties of interleaved audits (specification SpecConc).              *)
(***************************************************************************)

\* what an audit returns when it runs alone on the answers it was given
AloneDetailed(a) == BuildAuditResults(c_given[a].report.results, audit_steps)

ReturnsAsAlone(a) ==
    /\ c_results[a].history = c_given[a].messages
    /\ c_results[a].detailed = AloneDetailed(a)
    /\ c_score[a] = OverallScore(AloneDetailed(a), audit_steps)

\* an audit raises exactly on an answer of its own that is unusable
RaisesAsAlone(a) ==
    \/ c_given[a].messages = "none"
    \/ c_given[a].messages \in Conversations /\ c_given[a].report.kind = "raised"

\* C25: no step after construction changes the credentials, model name or
\* temperature of a client, and no audit changes the checklist; two audits
\* whose steps interleave at their awaits each return what they would return
\* when run alone.
C25_InterleavedAuditsIndependent ==
    /\ [](\A a \in Audits :
            /\ c_stage[a] = "Done" => ReturnsAsAlone(a)
            /\ c_stage[a] = "Raised" => RaisesAsAlone(a))
    /\ [][clients' = clients /\ audit_steps' = audit_steps]_vars

C25_Witness ==
    /\ c_stage = [a \in Audits |-> "Done"]
    /\ clients = BuiltClients
    /\ c_given[1].messages = "thread_x"
    /\ c_given[2].messages = "thread_y"
    /\ c_results[1].history = "thread_x"
    /\ c_results[2].history = "thread_y"
    /\ Len(c_results[1].detailed) = 1
    /\ c_results[2].detailed = << >>
    /\ c_score[1] # c_score[2]

(***************************************************************************)
(* Properties of the pipeline (specification SpecPipeline).                *)
(***************************************************************************)

Recorded(f) == p_state[f] # NoCase \/ p_file.data[f] # NoCase

\* C27: a file is recorded in the processing state, in memory and in the
\* state file, only after its conversion, audit, reports and copy all
\* succeeded; a call that fails returns status "error" and leaves the state
\* as it was, so that the file is processed again.
C27_RecordedOnlyAfterSuccess ==
    /\ [](\A f \in Files : Recorded(f) => p_succeeded[f] # NoCase)
    /\ [][p_last'.status = "error"
            => p_state' = p_state /\ p_file' = p_file]_vars

\* C28: once a file was processed successfully, the running pipeline holds
\* its first case number, also after a restart that reloads the state file,
\* and every call for it returns "skipped" with that case number, invokes
\* neither folder creation nor parser nor auditor, and changes no state.
C28_ProcessedFileSkipped ==
    /\ [](\A f \in Files :
            p_up /\ p_succeeded[f] # NoCase => p_state[f] = p_succeeded[f])
    /\ [][\A f \in Files :
            /\ p_succeeded[f] # NoCase
            /\ p_last' # p_last
            /\ p_last'.eml_file = f
            => /\ p_last' = [status |-> "skipped", eml_file |-> f,
                             case_number |-> p_succeeded[f], touched |-> {}]
               /\ UNCHANGED << p_state, p_file, folders, p_succeeded >>]_vars

C28_Witness ==
    /\ p_up
    /\ p_last = [status |-> "skipped", eml_file |-> "a.eml",
                 case_number |-> 0, touched |-> {}]
    /\ p_succeeded["a.eml"] = 0
    /\ p_succeeded["b.eml"] = 1
    /\ clock = MaxClock

\* C29: distinct files get distinct case numbers, and no case folder holds
\* the files of two emails, also when both are processed in one second.
C29_DistinctCaseNumbers ==
    /\ \A f, g \in Files :
         f # g /\ p_succeeded[f] # NoCase /\ p_succeeded[g] # NoCase
         => p_succeeded[f] # p_succeeded[g]
    /\ \A c \in Cases : Cardinality(folders[c].files) <= 1

====
